---- MODULE Spec2Model ----
(***************************************************************************)
(* Model of sensor_pack: BitField (bitfield.py), the bus adapters          *)
(* I2cAdapter and SpiAdapter (bus_service.py) and the DeviceEx facade      *)
(* (base_sensor.py).                                                       *)
(*                                                                         *)
(* Four specifications share the variables:                                *)
(*   SpecBitField  construct / put / get on inputs drawn by its Init       *)
(*   SpecI2c       the I2cAdapter operations                               *)
(*   SpecSpi       the SpiAdapter operations, one step per statement       *)
(*   SpecDevice    DeviceEx calls forwarded to the bound adapter           *)
(***************************************************************************)
EXTENDS Integers, Sequences, FiniteSets, TLC

\* ------------------------------------------------------------------ bounds

\* Register width W: bit positions are 0..RegWidth-1.
RegWidth == 5
\* Sources and values range down to -MaxNeg (Python ints are signed, unbounded).
MaxNeg == 2
\* Largest byte_count / n_bytes passed to an adapter.
MaxByteCount == 2
\* Longest buffer handed to a raw write / write_and_read.
MaxBufLen == 2

\* ------------------------------------------------- Python integer operators
\* Python ints are unbounded two's complement: bit i of x is (x \div 2^i) % 2
\* with floor division, so -1 is all ones.

RECURSIVE BitAnd(_, _)
BitAnd(a, b) ==
    IF a = 0 \/ b = 0 THEN 0
    ELSE IF a = -1 THEN b
    ELSE IF b = -1 THEN a
    ELSE (a % 2) * (b % 2) + 2 * BitAnd(a \div 2, b \div 2)

RECURSIVE BitOr(_, _)
BitOr(a, b) ==
    IF a = 0 THEN b
    ELSE IF b = 0 THEN a
    ELSE IF a = -1 \/ b = -1 THEN -1
    ELSE ((a % 2) + (b % 2) - (a % 2) * (b % 2)) + 2 * BitOr(a \div 2, b \div 2)

\* ~x
BitNot(x) == -x - 1

\* x << n  (n >= 0)
Shl(x, n) == x * (2 ^ n)

\* x >> n  (n >= 0), rounding towards minus infinity as Python does
Shr(x, n) == x \div (2 ^ n)

\* ---------------------------------------------------------------- state

VARIABLES
    \* BitField
    bfpc,        \* "new", "failed", "built", "put", "got", "gotraw"
    bfIn,        \* the inputs: [alias, start, stop, source, value]
    bf,          \* <<>> while no descriptor exists, else <<[alias, start, stop, bitmask]>>
    bfError,     \* "" or the exception raised by the constructor
    putResult,   \* what put returned
    getResult,   \* what get returned
    \* SpiAdapter fields and the pins
    data_mode_pin,      \* "None" or the name of the data-mode pin
    use_data_mode_pin,  \* BOOLEAN
    data_packet,        \* BOOLEAN
    pinLevel,           \* level of every pin: 0 or 1
    \* the adapter call in progress (SPI) or last made
    pc,          \* "idle", "low", "dm", "xfer", "finally"
    call,        \* [adapter, op, args]: the adapter method entered last
    events,      \* pin and transport accesses made by that call, in order
    outcome,     \* [status, error, value]: how the call ended
    pending,     \* outcome of the transport call, held until the finally block ran
    selected,    \* chip-select pins some transaction has driven
    \* DeviceEx
    device,      \* <<>> or <<[adapter, address, big_byte_order, msb_first]>>
    facade       \* the DeviceEx method entered last: [op, args]

bfVars == <<bfpc, bfIn, bf, bfError, putResult, getResult>>
spiFields == <<data_mode_pin, use_data_mode_pin, data_packet>>
busVars == <<pinLevel, pc, call, events, outcome, pending, selected>>
devVars == <<device, facade>>
vars == <<bfVars, spiFields, busVars, devVars>>

\* ---------------------------------------------------------------- BitField

\* range(start, 1 + stop) folded with res |= 1 << i
RECURSIVE BitmaskLoop(_, _, _)
BitmaskLoop(i, stop, res) ==
    IF i >= 1 + stop THEN res
    ELSE BitmaskLoop(i + 1, stop, BitOr(res, Shl(1, i)))

\* BitField._bitmask
_bitmask(start, stop) == BitmaskLoop(start, stop, 0)

\* put without masking the shifted value
putNoMask(field, source, value) ==
    BitOr(BitAnd(source, BitNot(field.bitmask)), Shl(value, field.start))

\* BitField.put
put(field, source, value) ==
    LET src == BitAnd(source, BitNot(field.bitmask))
    IN  BitOr(src, BitAnd(Shl(value, field.start), field.bitmask))

\* get without the right shift
getNoShift(field, source) == BitAnd(source, field.bitmask)

\* BitField.get
get(field, source) == Shr(BitAnd(source, field.bitmask), field.start)

Aliases == {"mode"}
BitPositions == 0 .. (RegWidth - 1)
Sources == (-MaxNeg) .. (2 ^ RegWidth - 1)
Values == (-MaxNeg) .. (2 ^ RegWidth - 1)

BitFieldInputs ==
    [alias : Aliases, start : BitPositions, stop : BitPositions,
     source : Sources, value : Values]

\* __init__ accepting any range
BitFieldInitNoCheck ==
    /\ bfpc = "new"
    /\ bfpc' = "built"
    /\ bfError' = ""
    /\ bf' = << [alias |-> bfIn.alias, start |-> bfIn.start, stop |-> bfIn.stop,
                 bitmask |-> _bitmask(bfIn.start, bfIn.stop)] >>
    /\ UNCHANGED <<bfIn, putResult, getResult>>

\* BitField.__init__(alias, start, stop)
BitFieldInit ==
    /\ bfpc = "new"
    /\ IF bfIn.start > bfIn.stop
       THEN /\ bfpc' = "failed"
            /\ bfError' = "ValueError"
            /\ bf' = <<>>
       ELSE /\ bfpc' = "built"
            /\ bfError' = ""
            /\ bf' = << [alias |-> bfIn.alias, start |-> bfIn.start, stop |-> bfIn.stop,
                         bitmask |-> _bitmask(bfIn.start, bfIn.stop)] >>
    /\ UNCHANGED <<bfIn, putResult, getResult>>

\* r = field.put(source, value)
BitFieldPut ==
    /\ bfpc = "built"
    /\ bfpc' = "put"
    /\ putResult' = put(bf[1], bfIn.source, bfIn.value)
    /\ UNCHANGED <<bfIn, bf, bfError, getResult>>

\* field.get(r), r the value put returned
BitFieldGet ==
    /\ bfpc = "put"
    /\ bfpc' = "got"
    /\ getResult' = get(bf[1], putResult)
    /\ UNCHANGED <<bfIn, bf, bfError, putResult>>

\* field.get(source) on a register value no put produced
BitFieldGetRaw ==
    /\ bfpc = "built"
    /\ bfpc' = "gotraw"
    /\ getResult' = get(bf[1], bfIn.source)
    /\ UNCHANGED <<bfIn, bf, bfError, putResult>>

\* ------------------------------------------------------- values on the bus

\* Python values are tagged tuples: <<"int", v>>, <<"bytes", seq>>,
\* <<"bytearray", seq>>, <<"None">>.
NoneValue == <<"None">>
IntValue(v) == <<"int", v>>
BytesValue(s) == <<"bytes", s>>

ByteSamples == {0, 165}
ValueSamples == {0, 255, 256, 300, 65535, 65536, 16777216}
ByteOrders == {"big", "little"}
ByteCounts == 0 .. MaxByteCount
I2cAddresses == {66, 118}
RegAddresses == {16, 247}
CsPins == {"cs0", "cs1"}
DataModePins == {"dc"}
Pins == CsPins \cup DataModePins

Buffers == UNION {[1 .. n -> ByteSamples] : n \in 0 .. MaxBufLen}
IntValues == {IntValue(v) : v \in ValueSamples}
ByteValues == {<<t, s>> : t \in {"bytes", "bytearray"}, s \in Buffers}
RegisterValues == IntValues \cup ByteValues \cup {NoneValue}
\* The SPI adapter never looks into a buffer: one per length, and one
\* register value of each type.
SpiBuffers == {BytesValue([i \in 1 .. n |-> 165]) : n \in 0 .. MaxBufLen}
SpiRegisterValues == {IntValue(300), BytesValue(<<1, 44>>), NoneValue}

\* what a device may answer to a read of n bytes
Replies(n) == {[i \in 1 .. n |-> b] : b \in ByteSamples}

isinstance(value, types) == value[1] \in types

\* to_bytes placing the least significant byte first whatever the order asked
to_bytes_little_only(v, n, byte_order) ==
    [i \in 1 .. n |-> (v \div (256 ^ (i - 1))) % 256]

\* int.to_bytes(n, byte_order): the n low bytes of v, most significant first
\* for "big", least significant first for "little"
to_bytes(v, n, byte_order) ==
    IF byte_order = "little"
    THEN [i \in 1 .. n |-> (v \div (256 ^ (i - 1))) % 256]
    ELSE [i \in 1 .. n |-> (v \div (256 ^ (n - i))) % 256]

\* v fits n unsigned bytes
Fits(v, n) == 0 <= v /\ v < 256 ^ n

\* ------------------------------------------------------------ call records

Idle == [status |-> "idle", error |-> "", value |-> NoneValue]
Running == [status |-> "running", error |-> "", value |-> NoneValue]
Returned(v) == [status |-> "returned", error |-> "", value |-> v]
Raised(e) == [status |-> "raised", error |-> e, value |-> NoneValue]

NoCall == [adapter |-> "", op |-> "", args |-> <<>>]
Call(adapter, op, args) == [adapter |-> adapter, op |-> op, args |-> args]
BusEvent(primitive, args) == <<"bus", primitive, args>>
PinEvent(pin, level) == <<"pin", pin, level>>

\* An adapter method that runs to its end in one step: the transport
\* primitives it invoked and how it ended.
Complete(adapter, op, args, evs, result) ==
    /\ pc = "idle"
    /\ call' = Call(adapter, op, args)
    /\ events' = evs
    /\ outcome' = result
    /\ UNCHANGED <<pinLevel, pc, pending, selected>>

\* How a transport primitive may end: it returns one of `returns`, or the
\* bus fails (OSError propagates unmodified).
TransportResults(returns) == {Returned(r) : r \in returns} \cup {Raised("OSError")}

\* -------------------------------------------------------------- I2cAdapter

\* write_register passing the integer encoded even when value is a byte sequence
I2cWriteRegisterPadBytes(device_addr, reg_addr, value, bytes_count, byte_order) ==
    LET buf == IF isinstance(value, {"int"})
               THEN BytesValue(to_bytes(value[2], bytes_count, byte_order))
               ELSE IF isinstance(value, {"bytes", "bytearray"})
               THEN <<value[1], [i \in 1 .. bytes_count |->
                                   IF i <= Len(value[2]) THEN value[2][i] ELSE 0]>>
               ELSE NoneValue
    IN  \E result \in TransportResults({NoneValue}) :
            Complete("i2c", "write_register",
                     <<device_addr, reg_addr, value, bytes_count, byte_order>>,
                     <<BusEvent("writeto_mem", <<device_addr, reg_addr, buf>>)>>,
                     result)

\* I2cAdapter.write_register(device_addr, reg_addr, value, bytes_count, byte_order)
I2cWriteRegister(device_addr, reg_addr, value, bytes_count, byte_order) ==
    LET args == <<device_addr, reg_addr, value, bytes_count, byte_order>>
        encoded == IF isinstance(value, {"int"})
                   THEN BytesValue(to_bytes(value[2], bytes_count, byte_order))
                   ELSE NoneValue
        buf == IF isinstance(value, {"bytes", "bytearray"}) THEN value ELSE encoded
        \* a value that does not fit bytes_count bytes: to_bytes raises
        \* OverflowError, or keeps the low bytes (MicroPython before 1.24)
        overflow == isinstance(value, {"int"}) /\ ~Fits(value[2], bytes_count)
        \* None has no buffer protocol: the transport may reject it
        rejected == IF buf = NoneValue THEN {Raised("TypeError")} ELSE {}
    IN  \/ /\ overflow
           /\ Complete("i2c", "write_register", args, <<>>, Raised("OverflowError"))
        \/ \E result \in TransportResults({NoneValue}) \cup rejected :
               Complete("i2c", "write_register", args,
                        <<BusEvent("writeto_mem", <<device_addr, reg_addr, buf>>)>>,
                        result)

\* I2cAdapter.read_register(device_addr, reg_addr, bytes_count)
I2cReadRegister(device_addr, reg_addr, bytes_count) ==
    \E result \in TransportResults({BytesValue(r) : r \in Replies(bytes_count)}) :
        Complete("i2c", "read_register", <<device_addr, reg_addr, bytes_count>>,
                 <<BusEvent("readfrom_mem", <<device_addr, reg_addr, bytes_count>>)>>,
                 result)

\* I2cAdapter.read(device_addr, n_bytes)
I2cRead(device_addr, n_bytes) ==
    \E result \in TransportResults({BytesValue(r) : r \in Replies(n_bytes)}) :
        Complete("i2c", "read", <<device_addr, n_bytes>>,
                 <<BusEvent("readfrom", <<device_addr, n_bytes>>)>>,
                 result)

\* I2cAdapter.read_buf_from_mem(device_addr, mem_addr, buf); buf is a
\* bytearray the transport fills, given by its length
I2cReadBufFromMem(device_addr, mem_addr, buf_len) ==
    \E result \in TransportResults({NoneValue}) :
        Complete("i2c", "read_buf_from_mem", <<device_addr, mem_addr, buf_len>>,
                 <<BusEvent("readfrom_mem_into", <<device_addr, mem_addr, buf_len>>)>>,
                 result)

\* I2cAdapter.write(device_addr, buf); writeto returns the number of ACKs
I2cWrite(device_addr, buf) ==
    \E result \in TransportResults({IntValue(Len(buf[2]))}) :
        Complete("i2c", "write", <<device_addr, buf>>,
                 <<BusEvent("writeto", <<device_addr, buf>>)>>,
                 result)

\* I2cAdapter.write_buf_to_mem(device_addr, mem_addr, buf)
I2cWriteBufToMem(device_addr, mem_addr, buf) ==
    \E result \in TransportResults({NoneValue}) :
        Complete("i2c", "write_buf_to_mem", <<device_addr, mem_addr, buf>>,
                 <<BusEvent("writeto_mem", <<device_addr, mem_addr, buf>>)>>,
                 result)

\* -------------------------------------------------------------- SpiAdapter

\* Pin.value(x), Pin.low(), Pin.high() drive the pin to a level
Level(x) == IF x THEN 1 ELSE 0
Drive(pin, level) == [pinLevel EXCEPT ![pin] = level]

\* SpiAdapter.__init__(bus, data_mode): the fields after construction
SpiAdapterInit(data_mode) ==
    /\ data_mode_pin = data_mode
    /\ use_data_mode_pin = FALSE
    /\ data_packet = FALSE

\* adapter.use_data_mode_pin = b
SetUseDataModePin(b) ==
    /\ pc = "idle"
    /\ use_data_mode_pin' = b
    /\ UNCHANGED <<data_mode_pin, data_packet, busVars>>

\* adapter.data_packet = b
SetDataPacket(b) ==
    /\ pc = "idle"
    /\ data_packet' = b
    /\ UNCHANGED <<data_mode_pin, use_data_mode_pin, busVars>>

\* read_register doing nothing and returning None instead of raising
SpiReadRegisterSilent(device_addr, reg_addr, bytes_count) ==
    Complete("spi", "read_register", <<device_addr, reg_addr, bytes_count>>,
             <<>>, Returned(NoneValue))

\* SpiAdapter.read_register(device_addr, reg_addr, bytes_count)
SpiReadRegister(device_addr, reg_addr, bytes_count) ==
    Complete("spi", "read_register", <<device_addr, reg_addr, bytes_count>>,
             <<>>, Raised("NotImplementedError"))

\* SpiAdapter.write_register(device_addr, reg_addr, value, bytes_count, byte_order)
SpiWriteRegister(device_addr, reg_addr, value, bytes_count, byte_order) ==
    Complete("spi", "write_register",
             <<device_addr, reg_addr, value, bytes_count, byte_order>>,
             <<>>, Raised("NotImplementedError"))

\* Entering one of the four transactions: the try block is entered with
\* nothing done yet. args[1] is device_addr, the chip-select pin.
SpiEnter(op, args) ==
    /\ pc = "idle"
    /\ pc' = "low"
    /\ call' = Call("spi", op, args)
    /\ events' = <<>>
    /\ outcome' = Running
    /\ pending' = Running
    /\ UNCHANGED <<pinLevel, selected>>

\* SpiAdapter.read(device_addr, n_bytes)
SpiRead(device_addr, n_bytes) == SpiEnter("read", <<device_addr, n_bytes>>)

\* SpiAdapter.readinto(device_addr, buf); buf is given by its length
SpiReadinto(device_addr, buf_len) == SpiEnter("readinto", <<device_addr, buf_len>>)

\* SpiAdapter.write(device_addr, buf)
SpiWrite(device_addr, buf) == SpiEnter("write", <<device_addr, buf>>)

\* SpiAdapter.write_and_read(device_addr, wr_buf, rd_buf); rd_buf is given
\* by its length
SpiWriteAndRead(device_addr, wr_buf, rd_len) ==
    SpiEnter("write_and_read", <<device_addr, wr_buf, rd_len>>)

SpiTransactions == {"read", "readinto", "write", "write_and_read"}
SpiWrites == {"write", "write_and_read"}
ChipSelect == call.args[1]

\* device_addr.low()
SpiCsLow ==
    /\ pc = "low"
    /\ pinLevel' = Drive(ChipSelect, 0)
    /\ events' = Append(events, PinEvent(ChipSelect, 0))
    /\ selected' = selected \cup {ChipSelect}
    /\ pc' = IF call.op \in SpiWrites THEN "dm" ELSE "xfer"
    /\ UNCHANGED <<call, outcome, pending>>

\* the data-mode pin driven whenever one is configured, the flag ignored
SpiDataModeIgnoringFlag ==
    /\ pc = "dm"
    /\ pc' = "xfer"
    /\ IF data_mode_pin # "None"
       THEN /\ pinLevel' = Drive(data_mode_pin, Level(data_packet))
            /\ events' = Append(events, PinEvent(data_mode_pin, Level(data_packet)))
       ELSE UNCHANGED <<pinLevel, events>>
    /\ UNCHANGED <<call, outcome, pending, selected>>

\* if self.use_data_mode_pin and self.data_mode_pin:
\*     self.data_mode_pin.value(self.data_packet)
SpiDataMode ==
    /\ pc = "dm"
    /\ pc' = "xfer"
    /\ IF use_data_mode_pin /\ data_mode_pin # "None"
       THEN /\ pinLevel' = Drive(data_mode_pin, Level(data_packet))
            /\ events' = Append(events, PinEvent(data_mode_pin, Level(data_packet)))
       ELSE UNCHANGED <<pinLevel, events>>
    /\ UNCHANGED <<call, outcome, pending, selected>>

\* The transport primitive each transaction invokes, with its arguments.
SpiPrimitive ==
    CASE call.op = "read" -> BusEvent("read", <<call.args[2]>>)
      [] call.op = "readinto" -> BusEvent("readinto", <<call.args[2], 0>>)
      [] call.op = "write" -> BusEvent("write", <<call.args[2]>>)
      [] call.op = "write_and_read" ->
            BusEvent("write_readinto", <<call.args[2], call.args[3]>>)

\* How the transport primitive may end. write_readinto given buffers of
\* different lengths is outside the transport's contract: machine.SPI
\* raises ValueError, another transport may transfer and return.
SpiTransportResults ==
    CASE call.op = "read" ->
            TransportResults({BytesValue(r) : r \in Replies(call.args[2])})
      [] call.op \in {"readinto", "write"} -> TransportResults({NoneValue})
      [] call.op = "write_and_read" ->
            TransportResults({NoneValue}) \cup
            (IF Len(call.args[2][2]) # call.args[3]
             THEN {Raised("ValueError")} ELSE {})

\* return self.bus.<primitive>(...)
SpiTransport ==
    /\ pc = "xfer"
    /\ pc' = "finally"
    /\ events' = Append(events, SpiPrimitive)
    /\ \E result \in SpiTransportResults : pending' = result
    /\ UNCHANGED <<pinLevel, call, outcome, selected>>

\* chip-select raised only when the transport call returned (no finally)
SpiCsHighOnReturnOnly ==
    /\ pc = "finally"
    /\ pc' = "idle"
    /\ outcome' = pending
    /\ IF pending.status = "returned"
       THEN /\ pinLevel' = Drive(ChipSelect, 1)
            /\ events' = Append(events, PinEvent(ChipSelect, 1))
       ELSE UNCHANGED <<pinLevel, events>>
    /\ UNCHANGED <<call, pending, selected>>

\* finally: device_addr.high(); then the transport's result or exception
\* reaches the caller
SpiCsHigh ==
    /\ pc = "finally"
    /\ pc' = "idle"
    /\ pinLevel' = Drive(ChipSelect, 1)
    /\ events' = Append(events, PinEvent(ChipSelect, 1))
    /\ outcome' = pending
    /\ UNCHANGED <<call, pending, selected>>

\* The statements of a transaction under way.
SpiStep == SpiCsLow \/ SpiDataMode \/ SpiTransport \/ SpiCsHigh

\* ----------------------------------------------------- Device and DeviceEx

\* Device.__init__(adapter, address, big_byte_order)
DeviceNew(adapter, address, big_byte_order) ==
    [adapter |-> adapter, address |-> address,
     big_byte_order |-> big_byte_order, msb_first |-> TRUE]

\* Device.is_big_byteorder
is_big_byteorder(self) == self.big_byte_order

\* byte order strings swapped
get_byteorder_swapped(self) ==
    IF is_big_byteorder(self) THEN <<"little", "<">> ELSE <<"big", ">">>

\* Device._get_byteorder_as_str
_get_byteorder_as_str(self) ==
    IF is_big_byteorder(self) THEN <<"big", ">">> ELSE <<"little", "<">>

\* adapter.read_register / write_register / read / write, dispatched on the
\* class of the bound adapter
AdapterReadRegister(adapter, device_addr, reg_addr, bytes_count) ==
    IF adapter = "i2c"
    THEN I2cReadRegister(device_addr, reg_addr, bytes_count)
    ELSE SpiReadRegister(device_addr, reg_addr, bytes_count)

AdapterWriteRegister(adapter, device_addr, reg_addr, value, bytes_count, byte_order) ==
    IF adapter = "i2c"
    THEN I2cWriteRegister(device_addr, reg_addr, value, bytes_count, byte_order)
    ELSE SpiWriteRegister(device_addr, reg_addr, value, bytes_count, byte_order)

AdapterRead(adapter, device_addr, n_bytes) ==
    IF adapter = "i2c" THEN I2cRead(device_addr, n_bytes)
    ELSE SpiRead(device_addr, n_bytes)

AdapterWrite(adapter, device_addr, buf) ==
    IF adapter = "i2c" THEN I2cWrite(device_addr, buf)
    ELSE SpiWrite(device_addr, buf)

\* DeviceEx.read_reg(reg_addr, bytes_count)
read_reg(reg_addr, bytes_count) ==
    /\ facade' = [op |-> "read_reg", args |-> <<reg_addr, bytes_count>>]
    /\ AdapterReadRegister(device[1].adapter, device[1].address, reg_addr, bytes_count)
    /\ UNCHANGED device

\* DeviceEx.write_reg(reg_addr, value, bytes_count)
write_reg(reg_addr, value, bytes_count) ==
    LET byte_order == _get_byteorder_as_str(device[1])[1]
    IN  /\ facade' = [op |-> "write_reg", args |-> <<reg_addr, value, bytes_count>>]
        /\ AdapterWriteRegister(device[1].adapter, device[1].address,
                                reg_addr, value, bytes_count, byte_order)
        /\ UNCHANGED device

\* DeviceEx.read(n_bytes)
read(n_bytes) ==
    /\ facade' = [op |-> "read", args |-> <<n_bytes>>]
    /\ AdapterRead(device[1].adapter, device[1].address, n_bytes)
    /\ UNCHANGED device

\* DeviceEx.write(buf)
write(buf) ==
    /\ facade' = [op |-> "write", args |-> <<buf>>]
    /\ AdapterWrite(device[1].adapter, device[1].address, buf)
    /\ UNCHANGED device

\* ---------------------------------------------------------- specifications

NoFacade == [op |-> "", args |-> <<>>]
NoBitFieldInput == [alias |-> "", start |-> 0, stop |-> 0, source |-> 0, value |-> 0]

BitFieldIdle ==
    /\ bfpc = "new"
    /\ bf = <<>>
    /\ bfError = ""
    /\ putResult = 0
    /\ getResult = 0

BusIdle ==
    /\ pc = "idle"
    /\ call = NoCall
    /\ events = <<>>
    /\ outcome = Idle
    /\ pending = Idle
    /\ selected = {}

\* BitField: the inputs are drawn, nothing is constructed yet.
InitBitField ==
    /\ bfIn \in BitFieldInputs
    /\ BitFieldIdle
    /\ SpiAdapterInit("None")
    /\ pinLevel = [p \in Pins |-> 1]
    /\ BusIdle
    /\ device = <<>>
    /\ facade = NoFacade

NextBitField ==
    /\ \/ BitFieldInit
       \/ BitFieldPut
       \/ BitFieldGet
       \/ BitFieldGetRaw
    /\ UNCHANGED <<spiFields, busVars, devVars>>

SpecBitField == InitBitField /\ [][NextBitField]_vars

\* I2cAdapter over an I2C bus.
InitI2c ==
    /\ bfIn = NoBitFieldInput
    /\ BitFieldIdle
    /\ SpiAdapterInit("None")
    /\ pinLevel = [p \in Pins |-> 1]
    /\ BusIdle
    /\ device = <<>>
    /\ facade = NoFacade

NextI2c ==
    /\ \/ \E a \in I2cAddresses, r \in RegAddresses, v \in RegisterValues,
            n \in ByteCounts, bo \in ByteOrders : I2cWriteRegister(a, r, v, n, bo)
       \/ \E a \in I2cAddresses, r \in RegAddresses, n \in ByteCounts :
            I2cReadRegister(a, r, n)
       \/ \E a \in I2cAddresses, n \in ByteCounts : I2cRead(a, n)
       \/ \E a \in I2cAddresses, r \in RegAddresses, n \in ByteCounts :
            I2cReadBufFromMem(a, r, n)
       \/ \E a \in I2cAddresses, b \in ByteValues : I2cWrite(a, b)
       \/ \E a \in I2cAddresses, r \in RegAddresses, b \in ByteValues :
            I2cWriteBufToMem(a, r, b)
    /\ UNCHANGED <<bfVars, spiFields, devVars>>

SpecI2c == InitI2c /\ [][NextI2c]_vars

\* SpiAdapter over an SPI bus; the pins start at any level.
InitSpi ==
    /\ bfIn = NoBitFieldInput
    /\ BitFieldIdle
    /\ \E dm \in {"None"} \cup DataModePins : SpiAdapterInit(dm)
    /\ pinLevel \in [Pins -> {0, 1}]
    /\ BusIdle
    /\ device = <<>>
    /\ facade = NoFacade

SpiCalls ==
    \/ \E p \in CsPins, n \in ByteCounts : SpiRead(p, n)
    \/ \E p \in CsPins, n \in 0 .. MaxBufLen : SpiReadinto(p, n)
    \/ \E p \in CsPins, b \in SpiBuffers : SpiWrite(p, b)
    \/ \E p \in CsPins, b \in SpiBuffers, n \in 0 .. MaxBufLen : SpiWriteAndRead(p, b, n)
    \/ \E p \in CsPins, r \in RegAddresses, n \in ByteCounts : SpiReadRegister(p, r, n)
    \/ \E p \in CsPins, r \in RegAddresses, v \in SpiRegisterValues,
         n \in ByteCounts, bo \in ByteOrders : SpiWriteRegister(p, r, v, n, bo)

NextSpi ==
    \/ /\ SpiCalls \/ SpiStep
       /\ UNCHANGED <<bfVars, spiFields, devVars>>
    \/ /\ \E b \in BOOLEAN : SetUseDataModePin(b) \/ SetDataPacket(b)
       /\ UNCHANGED <<bfVars, devVars>>

SpecSpi == InitSpi /\ [][NextSpi]_vars

\* A DeviceEx bound to an I2cAdapter with a bus address, or to a SpiAdapter
\* with a chip-select pin.
Bindings ==
    {DeviceNew("i2c", a, big) : a \in I2cAddresses, big \in BOOLEAN}
    \cup {DeviceNew("spi", p, big) : p \in CsPins, big \in BOOLEAN}

InitDevice ==
    /\ bfIn = NoBitFieldInput
    /\ BitFieldIdle
    /\ SpiAdapterInit("None")
    /\ pinLevel = [p \in Pins |-> 1]
    /\ BusIdle
    /\ \E d \in Bindings : device = <<d>>
    /\ facade = NoFacade

NextDevice ==
    \/ /\ \/ \E r \in RegAddresses, n \in ByteCounts : read_reg(r, n)
          \/ \E r \in RegAddresses, v \in RegisterValues, n \in ByteCounts :
                write_reg(r, v, n)
          \/ \E n \in ByteCounts : read(n)
          \/ \E b \in SpiBuffers : write(b)
       /\ UNCHANGED <<bfVars, spiFields>>
    \/ /\ SpiStep
       /\ UNCHANGED <<bfVars, spiFields, devVars>>

SpecDevice == InitDevice /\ [][NextDevice]_vars

\* ------------------------------------------------------------------ claims

\* bit i of the (signed, unbounded) integer x
Bit(x, i) == (x \div (2 ^ i)) % 2

Built == bfpc \in {"built", "put", "got", "gotraw"}

\* int.from_bytes(seq, byte_order), unsigned
RECURSIVE DecodeBig(_)
DecodeBig(seq) ==
    IF seq = <<>> THEN 0
    ELSE 256 * DecodeBig(SubSeq(seq, 1, Len(seq) - 1)) + seq[Len(seq)]

ReverseSeq(seq) == [i \in 1 .. Len(seq) |-> seq[Len(seq) + 1 - i]]

from_bytes(seq, byte_order) ==
    IF byte_order = "little" THEN DecodeBig(ReverseSeq(seq)) ELSE DecodeBig(seq)

IsPinEvent(e, pin, level) == e[1] = "pin" /\ e[2] = pin /\ e[3] = level
IsBusEvent(e) == e[1] = "bus"
BusEvents == {k \in 1 .. Len(events) : IsBusEvent(events[k])}
DataModeEvents ==
    {k \in 1 .. Len(events) : events[k][1] = "pin" /\ events[k][2] \in DataModePins}
ChipSelectEvents ==
    {k \in 1 .. Len(events) : events[k][1] = "pin" /\ events[k][2] \in CsPins}

\* C1: in every SpiAdapter transaction the chip-select pin is driven low
\* first, is low when the transport call is made and until it has ended, and
\* is driven high last, whether the transport call returned or raised; with
\* no transaction under way every chip-select pin a transaction has driven
\* is high.
C1_ChipSelectDiscipline ==
    /\ pc \in {"dm", "xfer", "finally"} =>
          /\ pinLevel[ChipSelect] = 0
          /\ IsPinEvent(events[1], ChipSelect, 0)
          /\ ChipSelectEvents = {1}
    /\ pc = "idle" => \A p \in selected : pinLevel[p] = 1
    /\ (pc = "idle" /\ call.op \in SpiTransactions) =>
          /\ outcome.status \in {"returned", "raised"}
          /\ IsPinEvent(events[1], ChipSelect, 0)
          /\ IsPinEvent(events[Len(events)], ChipSelect, 1)
          /\ ChipSelectEvents = {1, Len(events)}
          /\ BusEvents = {Len(events) - 1}

\* C1 witness: a write whose transport call raised has ended with its
\* chip-select pin high, and both chip-select pins have been used.
C1_Witness ==
    /\ pc = "idle"
    /\ call.op = "write"
    /\ outcome = Raised("OSError")
    /\ selected = CsPins
    /\ pinLevel[ChipSelect] = 1

\* C2: get(put(source, value)) is value masked to the field width,
\* value & (2^(stop-start+1) - 1), for every field, source and value.
C2_GetPutRoundTrip ==
    bfpc = "got" =>
        getResult = bfIn.value % (2 ^ (bfIn.stop - bfIn.start + 1))

\* C2 witness: BitField("mode", 2, 4).put(0, 0b101) is 0x14 and get(0x14) is 5.
C2_Witness ==
    /\ bfpc = "got"
    /\ bfIn = [alias |-> "mode", start |-> 2, stop |-> 4, source |-> 0, value |-> 5]
    /\ putResult = 20
    /\ getResult = 5

\* C3: put leaves every bit of source outside [start, stop] as it was: the
\* bits below start and all the bits above stop.
C3_PutFrame ==
    bfpc \in {"put", "got"} =>
        /\ putResult % (2 ^ bfIn.start) = bfIn.source % (2 ^ bfIn.start)
        /\ putResult \div (2 ^ (bfIn.stop + 1)) = bfIn.source \div (2 ^ (bfIn.stop + 1))

\* C3 witness: a value wider than the field, put over a source with bits set
\* on both sides of the field.
C3_Witness ==
    /\ bfpc = "put"
    /\ bfIn = [alias |-> "mode", start |-> 1, stop |-> 2, source |-> 21, value |-> 31]
    /\ putResult = 23

\* C4: the constructor fails with ValueError (InvalidRange) and leaves no
\* descriptor exactly when start > stop; otherwise it yields a descriptor
\* whose mask has exactly the bits start..stop set.
C4_ConstructorRange ==
    /\ bfpc = "failed" =>
          bfIn.start > bfIn.stop /\ bfError = "ValueError" /\ bf = <<>>
    /\ Built =>
          /\ bfIn.start <= bfIn.stop
          /\ bfError = ""
          /\ Len(bf) = 1
          /\ bf[1].start = bfIn.start
          /\ bf[1].stop = bfIn.stop
          /\ bf[1].bitmask >= 0
          /\ bf[1].bitmask < 2 ^ RegWidth
          /\ \A i \in BitPositions :
                Bit(bf[1].bitmask, i) = 1 <=> (bfIn.start <= i /\ i <= bfIn.stop)

\* C4 witness: BitField("mode", 4, 2) was refused.
C4_Witness ==
    /\ bfpc = "failed"
    /\ bfIn.start = 4
    /\ bfIn.stop = 2
    /\ bfError = "ValueError"

\* C5: write_register with an integer v that fits n bytes invokes
\* writeto_mem exactly once, with the device and register address given and
\* a buffer of exactly n bytes that decodes, in the same byte order, to v.
C5_WriteRegisterIntEncoding ==
    (/\ call.adapter = "i2c"
     /\ call.op = "write_register"
     /\ call.args[3][1] = "int"
     /\ Fits(call.args[3][2], call.args[4])) =>
        /\ Len(events) = 1
        /\ IsBusEvent(events[1])
        /\ events[1][2] = "writeto_mem"
        /\ events[1][3][1] = call.args[1]
        /\ events[1][3][2] = call.args[2]
        /\ events[1][3][3][1] = "bytes"
        /\ Len(events[1][3][3][2]) = call.args[4]
        /\ \A i \in 1 .. call.args[4] : events[1][3][3][2][i] \in 0 .. 255
        /\ from_bytes(events[1][3][3][2], call.args[5]) = call.args[3][2]

\* C5 witness: write_register(0x42, 0x10, 300, 2, "big") passed 0x01 0x2c.
C5_Witness ==
    /\ call = Call("i2c", "write_register", <<66, 16, IntValue(300), 2, "big">>)
    /\ events = <<BusEvent("writeto_mem", <<66, 16, BytesValue(<<1, 44>>)>>)>>
    /\ outcome = Returned(NoneValue)

\* C6 as claimed: write_and_read with wr_buf and rd_buf of different lengths
\* fails: it ends in an error, the length error (ValueError, the spec's
\* LengthMismatch) unless the bus itself failed first.
C6_LengthMismatchRaises ==
    (/\ pc = "idle"
     /\ call.op = "write_and_read"
     /\ Len(call.args[2][2]) # call.args[3]) =>
        /\ outcome.status = "raised"
        /\ outcome.error \in {"ValueError", "OSError"}

\* C7: SpiAdapter.read_register and write_register raise NotImplementedError
\* (UnsupportedOperation) whatever the arguments, having driven no pin and
\* invoked no transport primitive.
C7_SpiRegisterUnsupported ==
    [][(call'.adapter = "spi" /\ call'.op \in {"read_register", "write_register"}) =>
          /\ outcome' = Raised("NotImplementedError")
          /\ events' = <<>>
          /\ pinLevel' = pinLevel
          /\ pc' = "idle"]_vars

\* C7 witness: write_register was refused while its chip-select pin and the
\* data-mode pin are still low, as they were before.
C7_Witness ==
    /\ call.adapter = "spi"
    /\ call.op = "write_register"
    /\ outcome = Raised("NotImplementedError")
    /\ pinLevel[call.args[1]] = 0
    /\ pinLevel["dc"] = 0
    /\ use_data_mode_pin
    /\ data_mode_pin = "dc"

\* C8: in write and write_and_read, when use_data_mode_pin is true and a
\* data-mode pin is configured, the pin is driven once, to data_packet, after
\* chip-select went low and before the transport call; in every other case
\* (flag false, no pin, read, readinto) the data-mode pin is not driven.
C8_DataModePin ==
    pc \in {"xfer", "finally"} =>
        IF call.op \in SpiWrites /\ use_data_mode_pin /\ data_mode_pin # "None"
        THEN /\ DataModeEvents = {2}
             /\ IsPinEvent(events[1], ChipSelect, 0)
             /\ IsPinEvent(events[2], data_mode_pin, Level(data_packet))
             /\ pinLevel[data_mode_pin] = Level(data_packet)
             /\ BusEvents \subseteq {3}
        ELSE DataModeEvents = {}

\* C8 witness: write_and_read is about to call the transport with the
\* data-mode pin just driven high for a data packet.
C8_Witness ==
    /\ pc = "xfer"
    /\ call.op = "write_and_read"
    /\ use_data_mode_pin
    /\ data_mode_pin = "dc"
    /\ data_packet
    /\ events = <<PinEvent(ChipSelect, 0), PinEvent("dc", 1)>>
    /\ pinLevel["dc"] = 1

\* C9: write_register with a bytes or bytearray value passes that very
\* sequence to writeto_mem, whatever byte_count and byte_order are; the
\* adapter rejects nothing (only a bus failure can end the call in an error).
C9_WriteRegisterBytesVerbatim ==
    (/\ call.adapter = "i2c"
     /\ call.op = "write_register"
     /\ call.args[3][1] \in {"bytes", "bytearray"}) =>
        /\ events = <<BusEvent("writeto_mem", <<call.args[1], call.args[2], call.args[3]>>)>>
        /\ outcome \in {Returned(NoneValue), Raised("OSError")}

\* C9 witness: a one-byte bytearray written with byte_count 2 went out as it was.
C9_Witness ==
    /\ call = Call("i2c", "write_register", <<66, 16, <<"bytearray", <<165>>>>, 2, "little">>)
    /\ events = <<BusEvent("writeto_mem", <<66, 16, <<"bytearray", <<165>>>>>>)>>
    /\ outcome = Returned(NoneValue)

\* The adapter call a facade call must have made.
Forwarded ==
    LET d == device[1]
        bo == IF d.big_byte_order THEN "big" ELSE "little"
    IN  /\ call.adapter = d.adapter
        /\ call.args[1] = d.address
        /\ CASE facade.op = "read_reg" ->
                  /\ call.op = "read_register"
                  /\ call.args = <<d.address>> \o facade.args
             [] facade.op = "write_reg" ->
                  /\ call.op = "write_register"
                  /\ call.args = <<d.address>> \o facade.args \o <<bo>>
             [] facade.op = "read" ->
                  /\ call.op = "read"
                  /\ call.args = <<d.address>> \o facade.args
             [] facade.op = "write" ->
                  /\ call.op = "write"
                  /\ call.args = <<d.address>> \o facade.args

\* C10: every DeviceEx call reaches the bound adapter with the bound address
\* and its own arguments, write_reg adding "big" or "little" as
\* big_byte_order says, and no step changes the binding.
C10_FacadeForwards ==
    [][/\ device' = device
       /\ facade'.op # "" => Forwarded']_vars

\* C10 witness: a little-endian device on I2C wrote a register.
C10_Witness ==
    /\ facade.op = "write_reg"
    /\ device[1].adapter = "i2c"
    /\ ~device[1].big_byte_order
    /\ call.op = "write_register"
    /\ call.args[1] = device[1].address
    /\ call.args[3] = IntValue(300)
    /\ call.args[5] = "little"
    /\ outcome = Returned(NoneValue)

====
